---- MODULE Spec2Model ----
(***************************************************************************)
(* Retrieval-augmented chat core of the textbook-assistant backend:        *)
(*   src/src/services/retrieving.py  vector retriever                      *)
(*   src/src/services/agent.py       conversation store, agent, locks      *)
(*   src/src/services/llm_service.py completion provider                   *)
(*   src/src/api/chat.py             rate limiter and chat endpoints       *)
(* Each subsystem has its own next-state relation over the shared state;   *)
(* the variables a specification does not touch keep their initial value.  *)
(***************************************************************************)
EXTENDS Integers, Sequences, FiniteSets, TLC

VARIABLES
    conversation_contexts, \* agent.py:47   session id -> list of cached messages
    chat_messages,         \* chat_messages table: session id -> rows in created_at order
    appended,              \* history: the messages handed to add_message_to_context, per session
    nAdds,                 \* history: number of add_message_to_context calls made
    lastDb,                \* history: the last get_db_with_retry call and its result
    lastOp                 \* history: the last conversation-store operation and what it returned

storeVars == <<conversation_contexts, chat_messages, appended, nAdds, lastDb, lastOp>>

VARIABLES
    now,                   \* time.time(), in seconds
    request_counts,        \* chat.py:24   origin -> list of recorded request timestamps
    admitted,              \* history: the timestamps of all admitted requests, per origin
    rejectedSince,         \* history: requests rejected since the origin's last admission
    pending,               \* origin -> requests received whose handler has not run yet
    nReqs,                 \* history: number of requests made, per origin
    lastReq                \* history: the last request and the answer of admission control

rateVars == <<now, request_counts, admitted, rejectedSince, pending, nReqs, lastReq>>

VARIABLES
    lastRetr               \* history: the last call of retrieve and what came of it

retrVars == <<lastRetr>>

VARIABLES
    lastCall,              \* history: the last send_chat_message call and its answer
    prevCall,              \* history: the send_chat_message call before the last one
    nCalls,                \* history: number of send_chat_message calls made
    everDurableOk,         \* history: some durable-store attempt of a call did not raise
    handling,              \* where the send_chat_message call in progress stands
    created,               \* history: the sessions create_chat_session has returned
    reads,                 \* history: the answers of get_chat_session_messages, in order
    lastAsk                \* history: the last ask_from_selection call and its answer

chatVars == <<lastCall, prevCall, nCalls, everDurableOk, handling, created, reads, lastAsk>>

VARIABLES
    session_locks,         \* agent.py:50   session id -> the session's lock, 0 when absent
    lock_holder,           \* lock -> the thread that holds it, 0 when free
    frames                 \* thread -> where it is in run_agent_with_context, and its locals

agentVars == <<session_locks, lock_holder, frames>>

vars == <<storeVars, rateVars, retrVars, chatVars, agentVars>>

(***************************************************************************)
(* Bounds of the model.                                                    *)
(***************************************************************************)
MaxAdds == 2
MaxReqs == 13
MaxOtherReqs == 1
MaxPending == 2
MaxRetries == 4
MaxHandled == 2
MaxCreates == 4
MaxPoints == 2
MaxCalls == 2
MaxReads == 2
MaxAsks == 2
MaxPromptCalls == 4
NumThreads == 2

(***************************************************************************)
(* Conversation store (agent.py).                                          *)
(* A message is its role and content; the timestamp each cache entry and   *)
(* each row also carries is not read by any operation modelled here.       *)
(* A session id missing from conversation_contexts and one mapped to the   *)
(* empty list are not told apart: every reader creates the empty list      *)
(* before it reads (agent.py:86-87, 122-123, 162-163, 185-186).            *)
(***************************************************************************)
UUIDSessions == {"uuid_a"}
OtherSessions == {"session_1"}
Sessions == UUIDSessions \cup OtherSessions

Roles == {"user", "assistant"}
Contents == {"a", "b"}
Messages == [role : Roles, content : Contents]

\* UUID(session_id) succeeds (agent.py:98, 141)
IsUUID(s) == s \in UUIDSessions

\* What one attempt of a durable operation meets: "fail" when the try block
\* raises (get_db_with_retry cannot open a connection; for a UUID session id
\* also a failing query or commit), "ok" when nothing in it raises.
\* 2 ** attempt
RECURSIVE Pow2(_)
Pow2(n) == IF n = 0 THEN 1 ELSE 2 * Pow2(n - 1)

AttemptOutcomes == {"ok", "fail"}

(***************************************************************************)
(* get_db_with_retry (database.py:58-81).  What the probe `SELECT 1` of    *)
(* one attempt meets: it returns, raises SQLAlchemyError or raises another *)
(* exception.  The result names the attempt whose session is returned      *)
(* (0 for None) or whose error is raised, the attempts made, the sessions  *)
(* closed and the sleeps in units of backoff_factor.                       *)
(***************************************************************************)
ProbeOutcomes == {"ok", "sqlalchemy_error", "error"}

\* max_retries=3, the default with which agent.py calls get_db_with_retry
DefaultMaxRetries == 3

RECURSIVE GetDbFrom(_, _, _)
GetDbFrom(attempt, max_retries, probes) ==
    IF attempt >= max_retries
    THEN [exc |-> FALSE, session |-> 0, error |-> 0, attempts |-> attempt,
          closed |-> {}, sleeps |-> <<>>]
    ELSE
    LET o == probes[attempt + 1]
        shut == IF o = "sqlalchemy_error" THEN {attempt + 1} ELSE {}
    IN  IF o = "ok"
        THEN [exc |-> FALSE, session |-> attempt + 1, error |-> 0,
              attempts |-> attempt + 1, closed |-> {}, sleeps |-> <<>>]
        ELSE IF attempt = max_retries - 1
        THEN [exc |-> TRUE, session |-> 0, error |-> attempt + 1,
              attempts |-> attempt + 1, closed |-> shut, sleeps |-> <<>>]
        ELSE LET rest == GetDbFrom(attempt + 1, max_retries, probes)
             IN  [rest EXCEPT !.closed = shut \cup @,
                              !.sleeps = <<Pow2(attempt)>> \o @]

\* a get_db_with_retry that gives up after its first attempt
get_db_with_retry_Once(max_retries, probes) == GetDbFrom(0, 1, probes)

get_db_with_retry(max_retries, probes) == GetDbFrom(0, max_retries, probes)

NoDb == [called |-> FALSE, max_retries |-> 0, probes |-> <<>>,
         result |-> [exc |-> FALSE, session |-> 0, error |-> 0, attempts |-> 0,
                     closed |-> {}, sleeps |-> <<>>]]

\* a caller asks for a database session; the function keeps no state, so
\* one call per behaviour covers every call
GetDbWithRetry(max_retries, probes) ==
    /\ ~lastDb.called
    /\ lastDb' = [called |-> TRUE, max_retries |-> max_retries, probes |-> probes,
                  result |-> get_db_with_retry(max_retries, probes)]
    /\ UNCHANGED <<conversation_contexts, chat_messages, appended, nAdds, lastOp>>
    /\ UNCHANGED <<rateVars, retrVars, chatVars, agentVars>>

\* range(3) of the append's retry loop
AddAttempts == 3
\* range(3) of the read's retry loop
GetAttempts == 3
\* `attempt == 2`: the attempt after which the loops fall back
LastAttempt == 2

Outcomes == [1..3 -> AttemptOutcomes]

Raises(o) == o = "fail"

Ev(e, n) == [ev |-> e, arg |-> n]

\* a fallback block that is not guarded by `attempt == 2`
FallbackAppend_EveryFailure(ctx, s, m, attempt) ==
    [ctx EXCEPT ![s] = Append(@, m)]

\* the fallback block of the append's except clause
FallbackAppend(ctx, s, m, attempt) ==
    IF attempt = LastAttempt THEN [ctx EXCEPT ![s] = Append(@, m)] ELSE ctx

\* add_message_to_context_in_db from loop index `attempt` on: the cache, the
\* table and the trace of what the loop did (attempt, fail, fallback, sleep in
\* units of 0.1 s, ok, skip for the early return on a non-UUID id).
RECURSIVE AddInDbFrom(_, _, _, _, _, _)
AddInDbFrom(attempt, ctx, dbm, s, m, outs) ==
    IF attempt >= AddAttempts
    THEN [ctx |-> ctx, db |-> dbm, trace |-> <<>>]
    ELSE
    LET o == outs[attempt + 1] IN
    IF Raises(o)
    THEN LET ctx1 == FallbackAppend(ctx, s, m, attempt)
             rest == AddInDbFrom(attempt + 1, ctx1, dbm, s, m, outs)
             here == <<Ev("attempt", attempt), Ev("fail", attempt)>>
                     \o (IF attempt = LastAttempt THEN <<Ev("fallback", attempt)>> ELSE <<>>)
                     \o <<Ev("sleep", Pow2(attempt))>>
         IN  [rest EXCEPT !.trace = here \o @]
    ELSE IF ~IsUUID(s)
    THEN [ctx |-> ctx, db |-> dbm,
          trace |-> <<Ev("attempt", attempt), Ev("skip", attempt)>>]
    ELSE [ctx |-> ctx, db |-> [dbm EXCEPT ![s] = Append(@, m)],
          trace |-> <<Ev("attempt", attempt), Ev("ok", attempt)>>]

add_message_to_context_in_db(ctx, dbm, s, m, outs) ==
    AddInDbFrom(0, ctx, dbm, s, m, outs)

\* an append that relies on the durable path alone
add_message_to_context_NoCacheWrite(ctx, dbm, s, m, outs) ==
    add_message_to_context_in_db(ctx, dbm, s, m, outs)

\* an append whose cache is one list shared by all sessions
add_message_to_context_SharedList(ctx, dbm, s, m, outs) ==
    LET r == add_message_to_context_in_db(ctx, dbm, s, m, outs)
    IN  [r EXCEPT !.ctx = [x \in DOMAIN r.ctx |-> Append(r.ctx[x], m)]]

\* add_message_to_context: the durable append, then the cache append
add_message_to_context(ctx, dbm, s, m, outs) ==
    LET r == add_message_to_context_in_db(ctx, dbm, s, m, outs)
    IN  [r EXCEPT !.ctx = [r.ctx EXCEPT ![s] = Append(@, m)]]

\* get_conversation_context_from_db from loop index `attempt` on
RECURSIVE GetFromDbFrom(_, _, _, _, _)
GetFromDbFrom(attempt, ctx, dbm, s, outs) ==
    IF attempt >= GetAttempts
    THEN <<>>
    ELSE
    LET o == outs[attempt + 1] IN
    IF Raises(o)
    THEN IF attempt = LastAttempt
         THEN ctx[s]
         ELSE GetFromDbFrom(attempt + 1, ctx, dbm, s, outs)
    ELSE IF ~IsUUID(s)
    THEN <<>>
    ELSE dbm[s]

get_conversation_context_from_db(ctx, dbm, s, outs) ==
    GetFromDbFrom(0, ctx, dbm, s, outs)

\* a read that returns what the durable path gave even when it is empty
get_conversation_context_NoCacheFallback(ctx, dbm, s, outs) ==
    get_conversation_context_from_db(ctx, dbm, s, outs)

\* get_conversation_context: the rows if there are any, else the cache
get_conversation_context(ctx, dbm, s, outs) ==
    LET db_context == get_conversation_context_from_db(ctx, dbm, s, outs)
    IN  IF Len(db_context) > 0 THEN db_context ELSE ctx[s]

NoOp == [op |-> "none", session |-> "", msg |-> [role |-> "", content |-> ""],
         outs |-> <<>>, trace |-> <<>>, result |-> <<>>, pre |-> 0]

InitStore ==
    /\ conversation_contexts = [s \in Sessions |-> <<>>]
    /\ chat_messages = [s \in Sessions |-> <<>>]
    /\ appended = [s \in Sessions |-> <<>>]
    /\ nAdds = 0
    /\ lastDb = NoDb
    /\ lastOp = NoOp

\* a caller appends message m to session s
AddMessage(s, m, outs) ==
    /\ nAdds < MaxAdds
    /\ LET r == add_message_to_context(conversation_contexts, chat_messages, s, m, outs)
       IN  /\ conversation_contexts' = r.ctx
           /\ chat_messages' = r.db
           /\ lastOp' = [op |-> "add", session |-> s, msg |-> m, outs |-> outs,
                         trace |-> r.trace, result |-> <<>>,
                         pre |-> Len(conversation_contexts[s])]
    /\ appended' = [appended EXCEPT ![s] = Append(@, m)]
    /\ nAdds' = nAdds + 1
    /\ UNCHANGED lastDb
    /\ UNCHANGED <<rateVars, retrVars, chatVars, agentVars>>

\* a caller reads the history of session s
GetHistory(s, outs) ==
    /\ lastOp' = [op |-> "get", session |-> s, msg |-> NoOp.msg, outs |-> outs,
                  trace |-> <<>>, pre |-> Len(conversation_contexts[s]),
                  result |-> get_conversation_context(conversation_contexts,
                                                      chat_messages, s, outs)]
    /\ UNCHANGED <<conversation_contexts, chat_messages, appended, nAdds, lastDb>>
    /\ UNCHANGED <<rateVars, retrVars, chatVars, agentVars>>

(***************************************************************************)
(* Admission control (chat.py:23-43, 85-90, 248-253).                      *)
(***************************************************************************)
RATE_LIMIT == 10
RATE_LIMIT_WINDOW == 60

\* request.client.host, or "unknown" for a request without client address
Origins == {"10.0.0.1", "unknown"}
\* the number of requests the model lets an origin make
ReqCap(o) == IF o = "unknown" THEN MaxOtherReqs ELSE MaxReqs

\* the instants at which a request may arrive: two starts of a window, and
\* the seconds around the end of the window of a request made at time 0
Instants == {0, 1, RATE_LIMIT_WINDOW - 1, RATE_LIMIT_WINDOW, RATE_LIMIT_WINDOW + 1}

RECURSIVE SelectLive(_, _)
\* [req_time for req_time in ts if now - req_time < RATE_LIMIT_WINDOW]
SelectLive(ts, t) ==
    IF ts = <<>> THEN <<>>
    ELSE IF t - Head(ts) < RATE_LIMIT_WINDOW
         THEN <<Head(ts)>> \o SelectLive(Tail(ts), t)
         ELSE SelectLive(Tail(ts), t)

\* a limiter that never purges the recorded timestamps
is_rate_limited_NoPurge(rc, o, t) ==
    IF Len(rc[o]) >= RATE_LIMIT
    THEN [limited |-> TRUE, rc |-> rc]
    ELSE [limited |-> FALSE, rc |-> [rc EXCEPT ![o] = Append(@, t)]]

\* a limiter whose write overwrites the entry another request has just added
is_rate_limited_LostUpdate(rc, o, t) ==
    LET live == [rc EXCEPT ![o] = SelectLive(@, t)]
    IN  IF Len(live[o]) >= RATE_LIMIT
        THEN [limited |-> TRUE, rc |-> live]
        ELSE [limited |-> FALSE,
              rc |-> [live EXCEPT ![o] = Append(SubSeq(@, 1, Len(@) - 1), t)]]

\* a limiter that lets the request through when exactly RATE_LIMIT are live
is_rate_limited_OffByOne(rc, o, t) ==
    LET live == [rc EXCEPT ![o] = SelectLive(@, t)]
    IN  IF Len(live[o]) > RATE_LIMIT
        THEN [limited |-> TRUE, rc |-> live]
        ELSE [limited |-> FALSE, rc |-> [live EXCEPT ![o] = Append(@, t)]]

\* is_rate_limited for a request of origin o at time t: the answer and the
\* new request_counts
is_rate_limited(rc, o, t) ==
    LET live == [rc EXCEPT ![o] = SelectLive(@, t)]
    IN  IF Len(live[o]) >= RATE_LIMIT
        THEN [limited |-> TRUE, rc |-> live]
        ELSE [limited |-> FALSE, rc |-> [live EXCEPT ![o] = Append(@, t)]]

NoReq == [origin |-> "", at |-> 0, status |-> 0,
          prevAdmit |-> -1, rejectedBefore |-> 0]

InitRate ==
    /\ now = 0
    /\ request_counts = [o \in Origins |-> <<>>]
    /\ admitted = [o \in Origins |-> <<>>]
    /\ rejectedSince = [o \in Origins |-> 0]
    /\ pending = [o \in Origins |-> 0]
    /\ nReqs = [o \in Origins |-> 0]
    /\ lastReq = NoReq

\* time passes
Tick ==
    /\ \E t \in Instants : t > now /\ now' = t
    /\ UNCHANGED <<request_counts, admitted, rejectedSince, pending, nReqs, lastReq>>

\* admission control for a request of origin o at the current time
Admission(o) ==
    /\ nReqs[o] < ReqCap(o)
    /\ LET r == is_rate_limited(request_counts, o, now)
       IN  /\ request_counts' = r.rc
           /\ lastReq' = [origin |-> o, at |-> now,
                          status |-> IF r.limited THEN 429 ELSE 200,
                          prevAdmit |-> IF admitted[o] = <<>> THEN -1
                                        ELSE admitted[o][Len(admitted[o])],
                          rejectedBefore |-> rejectedSince[o]]
           /\ admitted' = IF r.limited THEN admitted
                          ELSE [admitted EXCEPT ![o] = Append(@, now)]
           /\ rejectedSince' = [rejectedSince EXCEPT ![o] = IF r.limited THEN @ + 1 ELSE 0]
    /\ nReqs' = [nReqs EXCEPT ![o] = @ + 1]
    /\ UNCHANGED now

\* the admission step of send_chat_message (chat.py:85-90): HTTP 429 when
\* limited; else the handler body runs, which reads and writes neither
\* request_counts nor the clock
ChatAdmission(o) == Admission(o) /\ UNCHANGED pending

\* the admission step of ask_from_selection (chat.py:248-253)
SelectionAdmission(o) == Admission(o) /\ UNCHANGED pending

\* a request of origin o reaches the server while other handlers are still
\* to run: its coroutine is queued on the event loop
Arrive(o) ==
    /\ pending[o] < MaxPending
    /\ nReqs[o] + pending[o] < ReqCap(o)
    /\ pending' = [pending EXCEPT ![o] = @ + 1]
    /\ UNCHANGED <<now, request_counts, admitted, rejectedSince, nReqs, lastReq>>

\* the event loop runs the handler of one of the queued requests, in any
\* order: send_chat_message and ask_from_selection are coroutines without an
\* await, so the admission step (chat.py:85-90, 248-253) runs to its end
\* before another handler starts
Dispatch(o) ==
    /\ pending[o] > 0
    /\ Admission(o)
    /\ pending' = [pending EXCEPT ![o] = @ - 1]


(***************************************************************************)
(* Vector retriever (retrieving.py).                                       *)
(* A Python call is modelled by its result: [exc |-> TRUE] when it raises, *)
(* [exc |-> FALSE, val |-> v] when it returns v.                           *)
(***************************************************************************)
Raise == [exc |-> TRUE, val |-> <<>>]
Return(v) == [exc |-> FALSE, val |-> v]

\* the dimension of the vectors of BAAI/bge-small-en-v1.5
EmbeddingDim == 384
CollectionDims == {384, 1024}

\* A payload is None or a dict; of a dict the model keeps the keys `text`
\* and `content`, each absent, the empty string or a non-empty string.
NonePayload == [none |-> TRUE, text |-> "absent", content |-> "absent"]
DictPayloads == [none : {FALSE}, text : {"absent", "", "T"}, content : {"absent", "", "C"}]
Payloads == {NonePayload} \cup DictPayloads

\* what the vector store is and holds when the query arrives
Backends == [reachable : BOOLEAN, collection_exists : BOOLEAN, dim : CollectionDims]
Rankings == UNION {[1..n -> Payloads] : n \in 0..MaxPoints}
Limits == 1..MaxPoints

\* get_embedding: the vector's dimension, or an exception when the model raises
get_embedding(embed_ok) == IF embed_ok THEN Return(EmbeddingDim) ELSE Raise

\* qdrant.query_points: raises when the store is unreachable, the collection
\* is missing or the vector has another dimension than the collection; else
\* the best `limit` points
query_points(backend, ranking, dim, limit) ==
    IF ~backend.reachable \/ ~backend.collection_exists \/ backend.dim # dim
    THEN Raise
    ELSE Return(SubSeq(ranking, 1, IF Len(ranking) < limit THEN Len(ranking) ELSE limit))

\* str(point.payload) of a dict without `text` and without truthy `content`
StrOf(payload) == IF payload.content = "absent" THEN "{}" ELSE "{'content': ''}"

\* the chunk of one point (retrieving.py:59-72); `'text' in None` raises
ChunkOf(payload) ==
    IF payload.none THEN Raise
    ELSE IF payload.text # "absent"
    THEN Return([content |-> payload.text])
    ELSE IF payload.content \notin {"absent", ""}
    THEN Return([content |-> payload.content])
    ELSE Return([content |-> StrOf(payload)])

\* the loop over result.points
RECURSIVE ChunksOf(_)
ChunksOf(points) ==
    IF points = <<>> THEN Return(<<>>)
    ELSE LET c == ChunkOf(Head(points)) IN
         IF c.exc THEN Raise
         ELSE LET rest == ChunksOf(Tail(points)) IN
              IF rest.exc THEN Raise ELSE Return(<<c.val>> \o rest.val)

\* the try block of retrieve
RetrieveBody(embed_ok, backend, ranking, limit) ==
    LET embedding == get_embedding(embed_ok) IN
    IF embedding.exc THEN Raise
    ELSE LET result == query_points(backend, ranking, embedding.val, limit) IN
         IF result.exc THEN Raise
         ELSE ChunksOf(result.val)

\* a retrieve whose except clause re-raises
retrieve_Reraise(embed_ok, backend, ranking, limit) ==
    RetrieveBody(embed_ok, backend, ranking, limit)

\* retrieve: `except Exception` returns the empty list
retrieve(embed_ok, backend, ranking, limit) ==
    LET body == RetrieveBody(embed_ok, backend, ranking, limit)
    IN  IF body.exc THEN Return(<<>>) ELSE body

NoRetr == [called |-> FALSE, embed_ok |-> TRUE,
           backend |-> [reachable |-> TRUE, collection_exists |-> TRUE, dim |-> 384],
           ranking |-> <<>>, limit |-> 1, result |-> Return(<<>>)]

InitRetr == lastRetr = NoRetr

\* a caller retrieves the chunks for a query; retrieve keeps no state, so
\* one call per behaviour covers every call
Retrieve(embed_ok, backend, ranking, limit) ==
    /\ ~lastRetr.called
    /\ lastRetr' = [called |-> TRUE, embed_ok |-> embed_ok, backend |-> backend,
                    ranking |-> ranking, limit |-> limit,
                    result |-> retrieve(embed_ok, backend, ranking, limit)]

\* the embedding, the search or the mapping of a result point throws
RetrievalThrows(c) ==
    \/ ~c.embed_ok
    \/ ~c.backend.reachable
    \/ ~c.backend.collection_exists
    \/ c.backend.dim # 384
    \/ \E i \in 1..Len(c.ranking) : i <= c.limit /\ c.ranking[i].none

(***************************************************************************)
(* Texts.  A text is a sequence of runs [ch, n]: n times the character ch. *)
(* The characters are ordinary ones ("a", "b", "r", "l", "t"), the markup  *)
(* characters "<", ">", "&" and ";", and the control characters "bel"      *)
(* (U+0007) and "nel" (U+0085).                                            *)
(***************************************************************************)
Run(c, n) == [ch |-> c, n |-> n]
\* the control characters in the class [\x00-\x08\x0B\x0C\x0E-\x1F\x7F]
ControlChars == {"bel"}
\* the control characters outside that class other than tab, line feed and
\* carriage return: U+0080 to U+009F
HighControlChars == {"nel"}

RECURSIVE TextLen(_)
\* len(text)
TextLen(text) == IF text = <<>> THEN 0 ELSE Head(text).n + TextLen(Tail(text))

RECURSIVE Repeat(_, _)
Repeat(text, n) == IF n = 0 THEN <<>> ELSE text \o Repeat(text, n - 1)

RECURSIVE html_escape(_)
\* html.escape(text): "<" becomes "&lt;", ">" becomes "&gt;", "&" becomes "&amp;"
html_escape(text) ==
    IF text = <<>> THEN <<>>
    ELSE LET r == Head(text)
             e == IF r.ch = "<"
                  THEN Repeat(<<Run("&", 1), Run("l", 1), Run("t", 1), Run(";", 1)>>, r.n)
                  ELSE IF r.ch = ">"
                  THEN Repeat(<<Run("&", 1), Run("g", 1), Run("t", 1), Run(";", 1)>>, r.n)
                  ELSE IF r.ch = "&"
                  THEN Repeat(<<Run("&", 1), Run("a", 1), Run("m", 1), Run("p", 1), Run(";", 1)>>, r.n)
                  ELSE <<r>>
         IN  e \o html_escape(Tail(text))

\* re.sub(r'[\x00-\x08\x0B\x0C\x0E-\x1F\x7F]', '', text)
StripControl(text) == SelectSeq(text, LAMBDA r : r.ch \notin ControlChars)

RECURSIVE Prefix(_, _)
\* text[:k]
Prefix(text, k) ==
    IF text = <<>> \/ k <= 0 THEN <<>>
    ELSE IF Head(text).n <= k
         THEN <<Head(text)>> \o Prefix(Tail(text), k - Head(text).n)
         ELSE <<Run(Head(text).ch, k)>>

\* the longest sanitized input kept
MaxInputChars == 5000

\* sanitize_input (chat.py:45-60)
sanitize_input(text) ==
    IF text = <<>> THEN text
    ELSE LET s == StripControl(html_escape(text))
         IN  IF TextLen(s) > MaxInputChars THEN Prefix(s, MaxInputChars) ELSE s

(***************************************************************************)
(* Completion provider (llm_service.py) and send_chat_message (chat.py).   *)
(* An exception is its class and the keyword groups its message contains:  *)
(* "auth" (API key, auth), "rate" (rate limit, quota), "timeout", "db"     *)
(* (database, connection); text names the rest of the message.             *)
(***************************************************************************)
RaiseErr(c, k, x) == [exc |-> TRUE, cls |-> c, kw |-> k, text |-> x, val |-> <<>>]
Ok(v) == [exc |-> FALSE, cls |-> "", kw |-> {}, text |-> "", val |-> v]

\* what client.chat.completions.create does: it returns a text or raises
CompletionText == <<Run("r", 1)>>
UpstreamErrors ==
    {[ok |-> FALSE, cls |-> "ValueError", kw |-> {}, text |-> "m1"],
     [ok |-> FALSE, cls |-> "APIError", kw |-> {"timeout", "db"}, text |-> "m1"]}
Upstreams == {[ok |-> TRUE, cls |-> "", kw |-> {}, text |-> ""]} \cup UpstreamErrors

\* the attributed sources: one per source handed in (llm_service.py:69-80)
AttributedSources(sources) == [i \in 1..Len(sources) |-> [content |-> sources[i].content]]

\* a completion call that lets the provider's exception through unchanged
chat_completion_with_sources_Reraise(upstream, sources) ==
    IF upstream.ok
    THEN Ok([response |-> CompletionText, sources |-> AttributedSources(sources)])
    ELSE RaiseErr(upstream.cls, upstream.kw, upstream.text)

\* LLMService.chat_completion_with_sources: every exception is raised again
\* as Exception("LLM error: " + str(e))
chat_completion_with_sources(upstream, sources) ==
    IF upstream.ok
    THEN Ok([response |-> CompletionText, sources |-> AttributedSources(sources)])
    ELSE RaiseErr("Exception", upstream.kw, upstream.text)

\* the fixed texts of the fallback responses (chat.py:198, 208, 218, 228, 238)
FallbackKinds == {"auth_fallback", "rate_fallback", "timeout_fallback",
                  "db_fallback", "generic_fallback"}

\* a chain that tests the keyword groups in the opposite order
Classify_LastMatch(kw) ==
    IF "db" \in kw THEN "db_fallback"
    ELSE IF "timeout" \in kw THEN "timeout_fallback"
    ELSE IF "rate" \in kw THEN "rate_fallback"
    ELSE IF "auth" \in kw THEN "auth_fallback"
    ELSE "generic_fallback"

\* the if/elif chain over the error message (chat.py:193-243)
Classify(kw) ==
    IF "auth" \in kw THEN "auth_fallback"
    ELSE IF "rate" \in kw THEN "rate_fallback"
    ELSE IF "timeout" \in kw THEN "timeout_fallback"
    ELSE IF "db" \in kw THEN "db_fallback"
    ELSE "generic_fallback"

\* except clauses whose fallback response carries str(e)
HandleError_Echo(err) ==
    IF err.cls = "ValueError"
    THEN [status |-> 400, kind |-> "http_error", response |-> <<>>,
          sources |-> <<>>, retrieved_chunks |-> 0, echo |-> err.text]
    ELSE IF err.cls = "SQLAlchemyError"
    THEN [status |-> 500, kind |-> "http_error", response |-> <<>>,
          sources |-> <<>>, retrieved_chunks |-> 0, echo |-> err.text]
    ELSE [status |-> 200, kind |-> Classify(err.kw), response |-> <<Run("a", 1)>>,
          sources |-> <<>>, retrieved_chunks |-> 0, echo |-> err.text]

\* the except clauses of send_chat_message (chat.py:182-243); echo is the
\* exception text that the answer carries: str(e) in the detail of the HTTP
\* errors, none in the fixed fallback texts
HandleError(err) ==
    IF err.cls = "ValueError"
    THEN [status |-> 400, kind |-> "http_error", response |-> <<>>,
          sources |-> <<>>, retrieved_chunks |-> 0, echo |-> err.text]
    ELSE IF err.cls = "SQLAlchemyError"
    THEN [status |-> 500, kind |-> "http_error", response |-> <<>>,
          sources |-> <<>>, retrieved_chunks |-> 0, echo |-> err.text]
    ELSE [status |-> 200, kind |-> Classify(err.kw), response |-> <<Run("a", 1)>>,
          sources |-> <<>>, retrieved_chunks |-> 0, echo |-> ""]

\* a clamp without the lower end
ClampWindow_NoFloor(w) == IF w < 10 THEN w ELSE 10

\* max(1, min(context_window, 10))
ClampWindow(w) ==
    LET m == IF w < 10 THEN w ELSE 10 IN IF m > 1 THEN m ELSE 1

\* a history that is never cut
RecentHistory_All(h) == h

\* conversation_history[-10:] if len(conversation_history) > 10 else conversation_history
RecentHistory(h) == IF Len(h) > 10 THEN SubSeq(h, Len(h) - 9, Len(h)) ELSE h

PromptMsg(role, content, context) ==
    [role |-> role, content |-> content, context |-> context]

\* a prompt without the conversation history
BuildPrompt_NoHistory(retrieved, history, query) ==
    <<PromptMsg("system", <<>>, [i \in 1..Len(retrieved) |-> retrieved[i].content]),
      PromptMsg("user", query, <<>>)>>

\* the messages sent to the completion provider (chat.py:115-128)
BuildPrompt(retrieved, history, query) ==
    <<PromptMsg("system", <<>>, [i \in 1..Len(retrieved) |-> retrieved[i].content])>>
    \o [i \in 1..Len(RecentHistory(history)) |->
          PromptMsg(RecentHistory(history)[i].role, RecentHistory(history)[i].content, <<>>)]
    \o <<PromptMsg("user", query, <<>>)>>

AllOkOuts == [i \in 1..3 |-> "ok"]
AllFailOuts == [i \in 1..3 |-> "fail"]
ChatOutcomes == {AllOkOuts, AllFailOuts}

\* what the vector store is when a chat message arrives: down, or up with
\* two chunks
ChatRetrievals ==
    {[embed_ok |-> TRUE,
      backend |-> [reachable |-> FALSE, collection_exists |-> TRUE, dim |-> 384],
      ranking |-> <<>>],
     [embed_ok |-> TRUE,
      backend |-> [reachable |-> TRUE, collection_exists |-> TRUE, dim |-> 384],
      ranking |-> <<[none |-> FALSE, text |-> "T", content |-> "absent"],
                    [none |-> FALSE, text |-> "absent", content |-> "C"]>>]}

RawContents ==
    {<<Run("a", 1)>>,
     <<Run("<", 1), Run(">", 1), Run("bel", 1), Run("nel", 1), Run("b", 10000)>>}
ChatWindows == {0, 15}
ChatOrigins == {"10.0.0.1"}

\* the stages of a call that met a failure
FailedStages(in) ==
    (IF RetrievalThrows([embed_ok |-> in.retr.embed_ok, backend |-> in.retr.backend,
                         ranking |-> in.retr.ranking, limit |-> ClampWindow(in.window)])
     THEN {"retrieval"} ELSE {})
    \cup (IF in.db = AllFailOuts THEN {"history"} ELSE {})
    \cup (IF ~in.up.ok THEN {"completion"} ELSE {})
    \cup (IF in.up.ok /\ in.db = AllFailOuts THEN {"persistence"} ELSE {})

\* the locals of a call that has not reached retrieval or prompt assembly
NoLocals == [query |-> <<>>, limit |-> 0, retrieved |-> <<>>, history |-> <<>>,
             prompt |-> <<>>]

\* no send_chat_message call is in progress
NotHandling == [pc |-> "idle", attempt |-> 0, conn |-> 0, connected |-> FALSE,
                conns |-> 0, result |-> "", handled |-> 0, exhausted |-> FALSE]

NoCall == [called |-> FALSE, session |-> "", status |-> 0, kind |-> "",
           response |-> <<>>, sources |-> <<>>, retrieved_chunks |-> 0,
           prompt |-> <<>>, query |-> <<>>, failed |-> {}, persisted |-> FALSE,
           window |-> 0, limit |-> 0, retrieved |-> <<>>, history |-> <<>>,
           raised |-> "", preCache |-> 0, preRows |-> 0,
           echo |-> "", raisedKw |-> {}, raisedText |-> ""]

InitChat ==
    /\ lastCall = NoCall
    /\ prevCall = NoCall
    /\ nCalls = 0
    /\ everDurableOk = FALSE
    /\ handling = NotHandling
    /\ created = <<>>
    /\ reads = <<>>
    /\ lastAsk = [called |-> FALSE, status |-> 0, kind |-> "", response |-> <<>>,
                  sources |-> <<>>, retrieved_chunks |-> 0, prompt |-> <<>>,
                  query |-> <<>>, window |-> 0, limit |-> 0, echo |-> "",
                  raised |-> "", raisedKw |-> {}, raisedText |-> ""]

\* the response of a call whose completion returned (chat.py:173-180)
SuccessAnswer(result, retrieved) ==
    [status |-> 200, kind |-> "completion", response |-> result.val.response,
     sources |-> result.val.sources, retrieved_chunks |-> Len(retrieved), echo |-> ""]

\* the record of a call: its answer, its locals (sanitized_content,
\* sanitized_context_window, retrieved_texts, conversation_history, messages),
\* what it met and the size of the session's cache list and table rows before it
CallRecord(in, answer, loc, persisted) ==
    [called |-> TRUE, session |-> in.session, status |-> answer.status,
     kind |-> answer.kind, response |-> answer.response, sources |-> answer.sources,
     retrieved_chunks |-> answer.retrieved_chunks, prompt |-> loc.prompt,
     query |-> loc.query, failed |-> FailedStages(in), persisted |-> persisted,
     window |-> in.window, limit |-> loc.limit, retrieved |-> loc.retrieved,
     history |-> loc.history, raised |-> IF in.up.ok THEN "" ELSE in.up.cls,
     echo |-> answer.echo, raisedKw |-> in.up.kw, raisedText |-> in.up.text,
     preCache |-> Len(conversation_contexts[in.session]),
     preRows |-> Len(chat_messages[in.session])]

\* send_chat_message rejects the request (chat.py:86-90)
ChatRejected(in) ==
    /\ lastCall' = [NoCall EXCEPT !.called = TRUE, !.session = in.session,
                                  !.status = 429, !.kind = "http_error"]
    /\ UNCHANGED <<conversation_contexts, chat_messages, appended, nAdds, lastDb, everDurableOk>>

\* an exception reaches the except clauses of send_chat_message: nothing is
\* persisted (chat.py:182-243)
ChatFailed(in, err, loc) ==
    /\ lastCall' = CallRecord(in, HandleError(err), loc, FALSE)
    /\ everDurableOk' = (everDurableOk \/ in.db # AllFailOuts)
    /\ UNCHANGED <<conversation_contexts, chat_messages, appended, nAdds, lastDb>>

\* the completion returned: both turns are appended and the response is
\* returned (chat.py:168-180)
ChatPersist(in, result, loc) ==
    \E a1 \in {add_message_to_context(conversation_contexts, chat_messages, in.session,
                                      [role |-> "user", content |-> loc.query], in.db)} :
    \E a2 \in {add_message_to_context(a1.ctx, a1.db, in.session,
                                      [role |-> "assistant",
                                       content |-> result.val.response], in.db)} :
        /\ lastCall' = CallRecord(in, SuccessAnswer(result, loc.retrieved), loc, TRUE)
        /\ conversation_contexts' = a2.ctx
        /\ chat_messages' = a2.db
        /\ appended' = [appended EXCEPT ![in.session] =
                          @ \o <<[role |-> "user", content |-> loc.query],
                                 [role |-> "assistant", content |-> result.val.response]>>]
        /\ nAdds' = nAdds + 2
        /\ UNCHANGED lastDb
        /\ everDurableOk' = (everDurableOk \/ in.db # AllFailOuts)

\* the try block of send_chat_message after sanitizing and retrieval
\* (chat.py:100-180)
ChatTry(in, query, limit, retrieved) ==
    \E history \in {get_conversation_context(conversation_contexts, chat_messages,
                                             in.session, in.db)} :
    \E prompt \in {BuildPrompt(retrieved, history, query)},
       result \in {chat_completion_with_sources(in.up,
                     [i \in 1..Len(retrieved) |-> [content |-> retrieved[i].content]])} :
    \E loc \in {[query |-> query, limit |-> limit, retrieved |-> retrieved,
                  history |-> history, prompt |-> prompt]} :
        IF result.exc
        THEN ChatFailed(in, result, loc)
        ELSE ChatPersist(in, result, loc)

\* send_chat_message (chat.py:82-243) for a request of origin o; in: session,
\* content, window, retr (the vector store), up (the completion provider),
\* db (what the durable attempts of the history read and of the two appends
\* of this call meet)
SendChatMessage(o, in) ==
    /\ nCalls' = nCalls + 1
    /\ prevCall' = lastCall
    /\ \E adm \in {is_rate_limited(request_counts, o, now)} :
        /\ request_counts' = adm.rc
        /\ IF adm.limited
           THEN ChatRejected(in)
           ELSE \E query \in {sanitize_input(in.content)},
                   limit \in {ClampWindow(in.window)} :
                \E got \in {retrieve(in.retr.embed_ok, in.retr.backend, in.retr.ranking,
                                     limit)} :
                    IF got.exc
                    THEN ChatFailed(in, RaiseErr("Exception", {}, ""),
                                    [NoLocals EXCEPT !.query = query, !.limit = limit])
                    ELSE ChatTry(in, query, limit, got.val)
    /\ UNCHANGED <<now, admitted, rejectedSince, pending, nReqs, lastReq, lastOp, reads, lastAsk,
                   handling, created, retrVars, agentVars>>

\* get_chat_session_messages (chat.py:398-409): the messages of
\* get_conversation_summary, which are get_conversation_context(session_id)
\* (agent.py:287-295)
GetChatSessionMessages(s, outs) ==
    /\ reads' = Append(reads, [session |-> s,
                               messages |-> get_conversation_context(
                                   conversation_contexts, chat_messages, s, outs)])
    /\ UNCHANGED <<lastCall, prevCall, nCalls, everDurableOk, handling, created, lastAsk>>
    /\ UNCHANGED <<storeVars, rateVars, retrVars, agentVars>>

\* a selection prompt that repeats the user message
SelectionPrompt_Repeat(retrieved, query) ==
    <<PromptMsg("system", <<>>, [i \in 1..Len(retrieved) |-> retrieved[i].content]),
      PromptMsg("user", query, <<>>), PromptMsg("user", query, <<>>)>>

\* the messages of ask_from_selection (chat.py:296-311)
SelectionPrompt(retrieved, query) ==
    <<PromptMsg("system", <<>>, [i \in 1..Len(retrieved) |-> retrieved[i].content]),
      PromptMsg("user", query, <<>>)>>

\* the record of an ask_from_selection call
AskRecord(in, answer, query, limit, prompt) ==
    [called |-> TRUE, status |-> answer.status, kind |-> answer.kind,
     response |-> answer.response, sources |-> answer.sources,
     retrieved_chunks |-> answer.retrieved_chunks, prompt |-> prompt,
     query |-> query, window |-> in.window, limit |-> limit, echo |-> answer.echo,
     raised |-> IF in.up.ok THEN "" ELSE in.up.cls, raisedKw |-> in.up.kw,
     raisedText |-> in.up.text]

\* the try block of ask_from_selection after retrieval (chat.py:263-327) and
\* its except clauses (chat.py:329-385)
AskTry(in, query, limit, retrieved) ==
    \E prompt \in {SelectionPrompt(retrieved, query)},
       result \in {chat_completion_with_sources(in.up,
                     [i \in 1..Len(retrieved) |-> [content |-> retrieved[i].content]])} :
        lastAsk' = AskRecord(in, IF result.exc THEN HandleError(result)
                                 ELSE SuccessAnswer(result, retrieved),
                             query, limit, prompt)

\* ask_from_selection (chat.py:245-385) for a request of origin o; in: content,
\* window, retr (the vector store), up (the completion provider)
AskFromSelection(o, in) ==
    /\ \E adm \in {is_rate_limited(request_counts, o, now)} :
        /\ request_counts' = adm.rc
        /\ IF adm.limited
           THEN lastAsk' = AskRecord(in, [status |-> 429, kind |-> "http_error",
                                          response |-> <<>>, sources |-> <<>>,
                                          retrieved_chunks |-> 0, echo |-> ""],
                                     <<>>, 0, <<>>)
           ELSE \E query \in {sanitize_input(in.content)},
                   limit \in {ClampWindow(in.window)} :
                \E got \in {retrieve(in.retr.embed_ok, in.retr.backend, in.retr.ranking,
                                     limit)} :
                    IF got.exc
                    THEN lastAsk' = AskRecord(in, HandleError(RaiseErr("Exception", {}, "")),
                                              query, limit, <<>>)
                    ELSE AskTry(in, query, limit, got.val)
    /\ UNCHANGED <<lastCall, prevCall, nCalls, everDurableOk, handling, created, reads>>
    /\ UNCHANGED <<now, admitted, rejectedSince, pending, nReqs, lastReq>>
    /\ UNCHANGED <<storeVars, retrVars, agentVars>>

(***************************************************************************)
(* create_chat_session (chat.py:71-80).  str(hash(title)) is a function    *)
(* of the title within one process; the table gives it for three titles,   *)
(* two of which have hashes that agree on their first eight characters.    *)
(***************************************************************************)
DefaultTitle == "New Chat Session"
Titles == {DefaultTitle, "Robots", "Sensors"}

StrHash(title) ==
    CASE title = DefaultTitle -> <<"-", "5", "2", "0", "1", "7", "7", "3", "9", "4">>
      [] title = "Robots" -> <<"8", "1", "3", "6", "6", "2", "0", "4", "1", "5">>
      [] title = "Sensors" -> <<"8", "1", "3", "6", "6", "2", "0", "4", "9", "9">>

\* "session_" + str(hash(request.title))[:8]
create_chat_session(title) ==
    [session_id |-> <<"session_">> \o SubSeq(StrHash(title), 1, 8), title |-> title]

CreateChatSession(title) ==
    /\ Len(created) < MaxCreates
    /\ created' = Append(created, create_chat_session(title))
    /\ UNCHANGED <<lastCall, prevCall, nCalls, everDurableOk, handling, reads, lastAsk>>
    /\ UNCHANGED <<storeVars, rateVars, retrVars, agentVars>>

(***************************************************************************)
(* The control flow of one send_chat_message call (chat.py:82-243), step   *)
(* by step: admission, retrieval, the history read, the completion and the *)
(* two appends.  A durable operation (agent.py:90-130, 133-174) is a loop   *)
(* of attempts, each of which first runs the loop of get_db_with_retry     *)
(* (database.py:58-81); every external call returns or raises.             *)
(***************************************************************************)
DurableStages == {"read", "add_user", "add_assistant"}

StageAfter(pc) ==
    CASE pc = "read" -> "complete"
      [] pc = "add_user" -> "add_assistant"
      [] pc = "add_assistant" -> "done"

\* a loop that starts the same attempt again
NextAttempt_Same(attempt) == attempt

\* `for attempt in range(3)`: the next value of the loop variable
NextAttempt(attempt) == attempt + 1

EnterStage(h, pc) ==
    [h EXCEPT !.pc = pc, !.attempt = 0, !.conn = 0, !.connected = FALSE, !.conns = 0,
              !.result = IF pc = "done" THEN "response" ELSE @]

\* the except clause of a durable operation: after the last attempt the
\* operation falls back to the cache and ends, else the loop goes on
AttemptFailed(h) ==
    IF h.attempt = LastAttempt
    THEN [EnterStage(h, StageAfter(h.pc)) EXCEPT
             !.exhausted = (h.exhausted \/ h.conns = AddAttempts * DefaultMaxRetries)]
    ELSE [h EXCEPT !.attempt = NextAttempt(@), !.conn = 0, !.connected = FALSE]

\* the call arrives: rejected with 429 or on to retrieval
HandleStart(limited) ==
    /\ handling.pc \in {"idle", "done"}
    /\ handling.handled < MaxHandled
    /\ handling' = [NotHandling EXCEPT !.handled = handling.handled + 1,
                                       !.pc = IF limited THEN "done" ELSE "retrieve",
                                       !.result = IF limited THEN "http_429" ELSE ""]

\* retrieve returns, with chunks or with [] after an exception
HandleRetrieve ==
    /\ handling.pc = "retrieve"
    /\ handling' = EnterStage(handling, "read")

\* one iteration of the loop of get_db_with_retry
HandleConnect(o) ==
    /\ handling.pc \in DurableStages /\ ~handling.connected
    /\ \E h \in {[handling EXCEPT !.conns = @ + 1]} :
          handling' = IF o = "ok" THEN [h EXCEPT !.connected = TRUE]
                      ELSE IF h.conn = DefaultMaxRetries - 1 THEN AttemptFailed(h)
                      ELSE [h EXCEPT !.conn = @ + 1]

\* the query or the commit of a durable attempt that has a session, or its
\* early return for an id that is not a UUID
HandleDurable(o) ==
    /\ handling.pc \in DurableStages /\ handling.connected
    /\ handling' = IF Raises(o) THEN AttemptFailed(handling)
                   ELSE EnterStage(handling, StageAfter(handling.pc))

\* the completion call returns or raises; an exception ends the call with a
\* fallback response
HandleComplete(ok) ==
    /\ handling.pc = "complete"
    /\ handling' = IF ok THEN EnterStage(handling, "add_user")
                   ELSE [handling EXCEPT !.pc = "done", !.result = "fallback"]

HandleStep ==
    \/ HandleRetrieve
    \/ \E o \in ProbeOutcomes : HandleConnect(o)
    \/ \E o \in AttemptOutcomes : HandleDurable(o)
    \/ \E ok \in BOOLEAN : HandleComplete(ok)

ChatInputs ==
    [session : Sessions, content : RawContents, window : ChatWindows,
     retr : ChatRetrievals, up : Upstreams, db : ChatOutcomes]

(***************************************************************************)
(* run_agent_with_context (agent.py:193-280), one step per statement,      *)
(* called from NumThreads threads. A lock made by threading.Lock() is      *)
(* named by the thread that made it.                                       *)
(***************************************************************************)
Threads == 1..NumThreads
NoThread == 0
NoLock == 0

AgentQuery == "a"
AgentAnswer == "b"
\* limit=5 (agent.py:202)
AgentRetrieveLimit == 5

IdleFrame == [pc |-> "idle", session |-> "", lock |-> NoLock, history |-> <<>>,
              result |-> ""]

InitAgent ==
    /\ session_locks = [s \in Sessions |-> NoLock]
    /\ lock_holder = [l \in Threads |-> NoThread]
    /\ frames = [t \in Threads |-> IdleFrame]

At(t, pc) == frames[t].pc = pc

Goto(t, pc) == frames' = [frames EXCEPT ![t].pc = pc]

\* leaving the with block (normally or by an exception) releases the lock
Leave(t, result) ==
    /\ lock_holder' = [lock_holder EXCEPT ![frames[t].lock] = NoThread]
    /\ frames' = [frames EXCEPT ![t].pc = "done", ![t].result = result]

\* thread t calls run_agent_with_context(query, s)
AgentCall(t, s) ==
    /\ At(t, "idle")
    /\ frames' = [frames EXCEPT ![t].pc = "check", ![t].session = s]
    /\ UNCHANGED <<session_locks, lock_holder>>
    /\ UNCHANGED <<storeVars, rateVars, retrVars, chatVars>>

\* l.196: if session_id not in session_locks
AgentCheck(t) ==
    /\ At(t, "check")
    /\ Goto(t, IF session_locks[frames[t].session] = NoLock THEN "create" ELSE "lookup")
    /\ UNCHANGED <<session_locks, lock_holder>>
    /\ UNCHANGED <<storeVars, rateVars, retrVars, chatVars>>

\* l.197: session_locks[session_id] = threading.Lock()
AgentCreate(t) ==
    /\ At(t, "create")
    /\ session_locks' = [session_locks EXCEPT ![frames[t].session] = t]
    /\ Goto(t, "lookup")
    /\ UNCHANGED lock_holder
    /\ UNCHANGED <<storeVars, rateVars, retrVars, chatVars>>

\* l.199: the expression session_locks[session_id]
AgentLookup(t) ==
    /\ At(t, "lookup")
    /\ frames' = [frames EXCEPT ![t].pc = "acquire",
                                ![t].lock = session_locks[frames[t].session]]
    /\ UNCHANGED <<session_locks, lock_holder>>
    /\ UNCHANGED <<storeVars, rateVars, retrVars, chatVars>>

\* l.199: with ...: blocks until the lock is free, then takes it
AgentAcquire(t) ==
    /\ At(t, "acquire")
    /\ lock_holder[frames[t].lock] = NoThread
    /\ lock_holder' = [lock_holder EXCEPT ![frames[t].lock] = t]
    /\ Goto(t, "retrieve")
    /\ UNCHANGED session_locks
    /\ UNCHANGED <<storeVars, rateVars, retrVars, chatVars>>

\* l.202-205: retrieve, then "\n\n".join(retrieved_texts); the join raises
\* TypeError on a non-empty list, whose items are dicts
AgentRetrieve(t, r) ==
    /\ At(t, "retrieve")
    /\ LET retrieved_texts == retrieve(r.embed_ok, r.backend, r.ranking,
                                       AgentRetrieveLimit).val
       IN  IF retrieved_texts = <<>>
           THEN Goto(t, "history") /\ UNCHANGED lock_holder
           ELSE Leave(t, "Agent error")
    /\ UNCHANGED session_locks
    /\ UNCHANGED <<storeVars, rateVars, retrVars, chatVars>>

\* l.208: conversation_history = get_conversation_context(session_id)
AgentHistory(t, outs) ==
    /\ At(t, "history")
    /\ frames' = [frames EXCEPT ![t].pc = "complete",
                                ![t].history = get_conversation_context(
                                    conversation_contexts, chat_messages,
                                    frames[t].session, outs)]
    /\ UNCHANGED <<session_locks, lock_holder>>
    /\ UNCHANGED <<storeVars, rateVars, retrVars, chatVars>>

\* l.235-249: the completion call with its three attempts; the third failure
\* is raised and leaves the with block
AgentComplete(t, ok) ==
    /\ At(t, "complete")
    /\ IF ok THEN Goto(t, "persist_user") /\ UNCHANGED lock_holder
             ELSE Leave(t, "Agent error")
    /\ UNCHANGED session_locks
    /\ UNCHANGED <<storeVars, rateVars, retrVars, chatVars>>

\* l.262 and l.264: add_message_to_context(session_id, role, content, sources)
AgentAdd(t, m, outs) ==
    /\ \E r \in {add_message_to_context(conversation_contexts, chat_messages,
                                        frames[t].session, m, outs)} :
          /\ conversation_contexts' = r.ctx
          /\ chat_messages' = r.db
    /\ appended' = [appended EXCEPT ![frames[t].session] = Append(@, m)]
    /\ UNCHANGED <<nAdds, lastDb, lastOp>>

\* l.262: the user turn
AgentPersistUser(t, outs) ==
    /\ At(t, "persist_user")
    /\ AgentAdd(t, [role |-> "user", content |-> AgentQuery], outs)
    /\ Goto(t, "persist_assistant")
    /\ UNCHANGED <<session_locks, lock_holder>>
    /\ UNCHANGED <<rateVars, retrVars, chatVars>>

\* l.263-266: the assistant turn, return ai_response
AgentPersistAssistant(t, outs) ==
    /\ At(t, "persist_assistant")
    /\ AgentAdd(t, [role |-> "assistant", content |-> AgentAnswer], outs)
    /\ Leave(t, "ai_response")
    /\ UNCHANGED session_locks
    /\ UNCHANGED <<rateVars, retrVars, chatVars>>

Init == InitStore /\ InitRate /\ InitRetr /\ InitChat /\ InitAgent

NextAgent ==
    \/ \E t \in Threads, s \in Sessions : AgentCall(t, s)
    \/ \E t \in Threads : AgentCheck(t)
    \/ \E t \in Threads : AgentCreate(t)
    \/ \E t \in Threads : AgentLookup(t)
    \/ \E t \in Threads : AgentAcquire(t)
    \/ \E t \in Threads, r \in ChatRetrievals : AgentRetrieve(t, r)
    \/ \E t \in Threads, outs \in ChatOutcomes : AgentHistory(t, outs)
    \/ \E t \in Threads, ok \in BOOLEAN : AgentComplete(t, ok)
    \/ \E t \in Threads, outs \in ChatOutcomes : AgentPersistUser(t, outs)
    \/ \E t \in Threads, outs \in ChatOutcomes : AgentPersistAssistant(t, outs)

SpecAgent == Init /\ [][NextAgent]_vars

NextChat ==
    \E o \in ChatOrigins, in \in ChatInputs : nCalls < MaxCalls /\ SendChatMessage(o, in)

SpecChat == Init /\ [][NextChat]_vars

\* the calls and reads of a client that sends short messages while the vector
\* store is down
HistoryInputs ==
    [session : Sessions, content : {<<Run("a", 1)>>, <<Run("b", 1)>>}, window : {5},
     retr : {r \in ChatRetrievals : ~r.backend.reachable},
     up : {u \in Upstreams : u.ok}, db : ChatOutcomes]

NextHistory ==
    \/ \E o \in ChatOrigins, in \in HistoryInputs :
          nCalls < MaxCalls /\ SendChatMessage(o, in)
    \/ \E s \in Sessions, outs \in ChatOutcomes :
          Len(reads) < MaxReads /\ GetChatSessionMessages(s, outs)

SpecHistory == Init /\ [][NextHistory]_vars

\* the calls of one client on one session, long enough for a history of
\* more than ten messages
PromptInputs ==
    [session : UUIDSessions, content : {<<Run("a", 1)>>, <<Run("b", 1)>>}, window : {5},
     retr : ChatRetrievals, up : {u \in Upstreams : u.ok}, db : ChatOutcomes]

NextPrompt ==
    \E o \in ChatOrigins, in \in PromptInputs :
        nCalls < MaxPromptCalls /\ SendChatMessage(o, in)

SpecPrompt == Init /\ [][NextPrompt]_vars

\* the keyword groups of an exception message
Keywords == {"auth", "rate", "timeout", "db"}

\* failures of the completion call: messages without a keyword, with each
\* single keyword group and with several groups; two texts for the messages
\* without keyword and for the timeout messages
FailureErrors ==
    {[ok |-> FALSE, cls |-> c, kw |-> {}, text |-> x] :
         c \in {"ValueError", "APIError"}, x \in {"m1", "m2"}}
    \cup {[ok |-> FALSE, cls |-> "APIError", kw |-> {"timeout"}, text |-> x] :
             x \in {"m1", "m2"}}
    \cup {[ok |-> FALSE, cls |-> "APIError", kw |-> k, text |-> "m1"] :
             k \in {{"auth"}, {"rate"}, {"db"}, {"timeout", "db"},
                    {"rate", "timeout", "db"}, Keywords}}

FailureInputs ==
    [session : UUIDSessions, content : {<<Run("a", 1)>>}, window : {5},
     retr : {r \in ChatRetrievals : r.backend.reachable},
     up : {u \in Upstreams : u.ok} \cup FailureErrors, db : {AllOkOuts}]

FailureAskInputs ==
    [content : {<<Run("a", 1)>>}, window : {5},
     retr : {r \in ChatRetrievals : r.backend.reachable},
     up : {u \in FailureErrors : u.kw \in {{}, {"auth"}, Keywords}}]

\* requested context windows: negative, zero, inside the range, its upper
\* end, above it and far above it
AllWindows == {-3, 0, 5, 10, 15, 1000000}

\* chat messages that fill the conversation store
WindowInputs ==
    [session : UUIDSessions, content : {<<Run("a", 1)>>}, window : AllWindows,
     retr : {r \in ChatRetrievals : r.backend.reachable},
     up : {u \in Upstreams : u.ok}, db : {AllOkOuts}]

SelectionInputs ==
    [content : {<<Run("a", 1)>>}, window : AllWindows, retr : ChatRetrievals,
     up : {u \in Upstreams : u.ok \/ u.cls = "APIError"}]

\* the ask_from_selection requests recorded for origin o: the clock stands
\* still here, so no record is purged
AsksMade(o) == Len(request_counts[o]) - nCalls

NextSelection ==
    \/ \E o \in ChatOrigins, in \in WindowInputs :
          nCalls < MaxCalls /\ SendChatMessage(o, in)
    \/ \E o \in ChatOrigins, in \in SelectionInputs :
          AsksMade(o) < MaxAsks /\ AskFromSelection(o, in)

SpecSelection == Init /\ [][NextSelection]_vars

NextFailure ==
    \/ \E o \in ChatOrigins, in \in FailureInputs :
          nCalls < MaxCalls /\ SendChatMessage(o, in)
    \/ \E o \in ChatOrigins, in \in FailureAskInputs :
          AsksMade(o) < MaxAsks /\ AskFromSelection(o, in)

SpecFailure == Init /\ [][NextFailure]_vars

NextRetrieve ==
    \E embed_ok \in BOOLEAN, backend \in Backends, ranking \in Rankings, limit \in Limits :
        Retrieve(embed_ok, backend, ranking, limit) /\ UNCHANGED <<storeVars, rateVars, chatVars, agentVars>>

SpecRetrieve == Init /\ [][NextRetrieve]_vars

NextRate ==
    \/ Tick /\ UNCHANGED <<storeVars, retrVars, chatVars, agentVars>>
    \/ \E o \in Origins : ChatAdmission(o) /\ UNCHANGED <<storeVars, retrVars, chatVars, agentVars>>
    \/ \E o \in Origins : SelectionAdmission(o) /\ UNCHANGED <<storeVars, retrVars, chatVars, agentVars>>

SpecRate == Init /\ [][NextRate]_vars

\* the origin whose requests are handled concurrently
LoopOrigins == {"10.0.0.1"}

NextLoop ==
    \/ Tick /\ UNCHANGED <<storeVars, retrVars, chatVars, agentVars>>
    \/ \E o \in LoopOrigins : Arrive(o) /\ UNCHANGED <<storeVars, retrVars, chatVars, agentVars>>
    \/ \E o \in LoopOrigins : Dispatch(o) /\ UNCHANGED <<storeVars, retrVars, chatVars, agentVars>>

SpecLoop == Init /\ [][NextLoop]_vars

NextStore ==
    \/ \E s \in Sessions, m \in Messages, outs \in Outcomes : AddMessage(s, m, outs)
    \/ \E s \in Sessions, outs \in Outcomes : GetHistory(s, outs)

SpecStore == Init /\ [][NextStore]_vars

NextDb ==
    \E n \in 1..MaxRetries : \E probes \in [1..n -> ProbeOutcomes] : GetDbWithRetry(n, probes)

SpecDb == Init /\ [][NextDb]_vars

NextSessions == \E title \in Titles : CreateChatSession(title)

SpecSessions == Init /\ [][NextSessions]_vars

HandlingFrame ==
    UNCHANGED <<lastCall, prevCall, nCalls, everDurableOk, created, reads, lastAsk,
                storeVars, rateVars, retrVars, agentVars>>

NextHandling ==
    \/ \E limited \in BOOLEAN : HandleStart(limited) /\ HandlingFrame
    \/ HandleStep /\ HandlingFrame

\* a call in progress keeps running: every external call returns or raises
SpecHandling == Init /\ [][NextHandling]_vars /\ WF_vars(HandleStep /\ HandlingFrame)

(***************************************************************************)
(* Claims about the conversation store, checked under SpecStore.           *)
(***************************************************************************)
AllFail(outs) == \A i \in 1..3 : outs[i] = "fail"
SomeOk(outs) == \E i \in 1..3 : outs[i] = "ok"
\* the first attempt that does not raise (4 when all raise)
FirstOk(outs) == IF SomeOk(outs)
                 THEN CHOOSE i \in 1..3 : outs[i] = "ok" /\ \A j \in 1..(i - 1) : outs[j] = "fail"
                 ELSE 4
EventsOf(trace, e) == {i \in 1..Len(trace) : trace[i].ev = e}

\* C2: after N calls of add_message_to_context on a session, whatever the
\* durable store did, get_conversation_context returns exactly those N
\* messages in insertion order.
C2_ReadAfterWrite ==
    lastOp.op = "get" => lastOp.result = appended[lastOp.session]

\* C7: when add_message_to_context returns, the cache of the session has the
\* message as its latest entry, whether the durable write succeeded, failed
\* on all attempts or was skipped for a non-UUID session id.
C7_DualWrite ==
    lastOp.op = "add" =>
        LET c == conversation_contexts[lastOp.session]
        IN  Len(c) > 0 /\ c[Len(c)] = lastOp.msg

\* C7 witness: an append whose durable write succeeded, so that only the
\* cache write of add_message_to_context put the message into the cache.
C7_Witness ==
    /\ lastOp.op = "add"
    /\ IsUUID(lastOp.session)
    /\ lastOp.outs[1] = "ok"
    /\ Len(chat_messages[lastOp.session]) = 2
    /\ conversation_contexts[lastOp.session][Len(conversation_contexts[lastOp.session])]
         = lastOp.msg

\* C9: get_conversation_context returns the durable rows of the session
\* whenever the durable read yields at least one row; when it yields no row
\* (nothing stored, or the id is no UUID) or fails on all 3 attempts it
\* returns the cache's list of the session.
C9_ReadPolicy ==
    lastOp.op = "get" =>
        LET s == lastOp.session
            rows == IF IsUUID(s) THEN chat_messages[s] ELSE <<>>
        IN  IF SomeOk(lastOp.outs) /\ Len(rows) >= 1
            THEN lastOp.result = rows
            ELSE lastOp.result = conversation_contexts[s]

\* C9 witness: a read that succeeds on its second attempt and returns rows
\* that differ from the cache's list.
C9_Witness ==
    /\ lastOp.op = "get"
    /\ lastOp.outs[1] = "fail" /\ lastOp.outs[2] = "ok"
    /\ Len(chat_messages[lastOp.session]) >= 1
    /\ chat_messages[lastOp.session] # conversation_contexts[lastOp.session]
    /\ lastOp.result = chat_messages[lastOp.session]

\* C10: add_message_to_context_in_db attempts the durable write at most 3
\* times, stops at the first success without writing a fallback entry, backs
\* off between consecutive attempts, and writes its fallback entry to the
\* cache only after the third consecutive failure.
C10_DurableRetry ==
    lastOp.op = "add" =>
        LET tr == lastOp.trace
            outs == lastOp.outs
            s == lastOp.session
            att == EventsOf(tr, "attempt")
            grown == Len(conversation_contexts[s]) - lastOp.pre
        IN  /\ Cardinality(att) <= 3
            /\ Cardinality(att) = IF SomeOk(outs) THEN FirstOk(outs) ELSE 3
            /\ SomeOk(outs) =>
                 /\ tr[Len(tr)].ev \in {"ok", "skip"}
                 /\ EventsOf(tr, "fallback") = {}
                 /\ grown = 1
            /\ \A i \in att, j \in att :
                 i < j => \E k \in (i + 1)..(j - 1) : tr[k].ev = "sleep"
            /\ \A f \in EventsOf(tr, "fallback") :
                 Cardinality({i \in EventsOf(tr, "fail") : i < f}) = 3
            /\ (EventsOf(tr, "fallback") # {}) = AllFail(outs)
            /\ AllFail(outs) => grown = 2
            /\ Len(chat_messages[s]) <= Len(appended[s])

\* C10 witness: an append whose first two attempts fail and whose third
\* succeeds: two back-offs, no fallback entry.
C10_Witness ==
    /\ lastOp.op = "add"
    /\ IsUUID(lastOp.session)
    /\ lastOp.outs = <<"fail", "fail", "ok">>
    /\ Cardinality(EventsOf(lastOp.trace, "sleep")) = 2
    /\ Len(conversation_contexts[lastOp.session]) = lastOp.pre + 1

(***************************************************************************)
(* Claims about admission control, checked under SpecRate.                 *)
(***************************************************************************)
\* the admitted requests of the last request's origin before that request
PriorAdmitted ==
    LET a == admitted[lastReq.origin]
    IN  IF lastReq.status = 200 THEN SubSeq(a, 1, Len(a) - 1) ELSE a
LiveAt(ts, t) == {i \in 1..Len(ts) : t - ts[i] < 60}

\* C5: a request is rejected with HTTP 429 exactly when its origin already
\* has 10 recorded requests less than 60 seconds old; otherwise it is
\* admitted and its timestamp recorded. So an origin has at most 10 admitted
\* requests in any 60-second window and at most 10 live recorded entries.
C5_AdmissionRule ==
    /\ lastReq.status # 0 =>
         LET o == lastReq.origin
             live == Cardinality(LiveAt(PriorAdmitted, lastReq.at))
         IN  /\ lastReq.status \in {200, 429}
             /\ (lastReq.status = 429) <=> (live = 10)
             /\ live <= 10
             /\ lastReq.status = 200 =>
                  /\ Len(request_counts[o]) = live + 1
                  /\ request_counts[o][live + 1] = lastReq.at
             /\ lastReq.status = 429 => Len(request_counts[o]) = 10
    /\ \A o \in Origins :
         /\ \A i \in 1..Len(admitted[o]), j \in 1..Len(admitted[o]) :
              j - i >= 10 => admitted[o][j] - admitted[o][i] >= 60
         /\ Cardinality(LiveAt(request_counts[o], now)) <= 10

\* C5 witness: the 11th request of an origin inside the window of its first
\* ten is rejected, after a request of another origin was admitted.
C5_Witness ==
    /\ lastReq.status = 429
    /\ lastReq.origin = "10.0.0.1"
    /\ lastReq.at = 59
    /\ Len(admitted["10.0.0.1"]) = 10
    /\ Len(admitted["unknown"]) = 1

\* C6: once 10 requests of an origin were admitted in a window and a later
\* one was rejected, a request arriving more than 60 seconds after the
\* origin's last admitted request is admitted, however many requests were
\* rejected in between; rejected requests are not recorded.
C6_Recovery ==
    /\ (/\ lastReq.status # 0
        /\ lastReq.rejectedBefore >= 1
        /\ lastReq.at - lastReq.prevAdmit > 60) => lastReq.status = 200
    /\ lastReq.status = 429 =>
         \A i \in 1..Len(request_counts[lastReq.origin]) :
            request_counts[lastReq.origin][i] <= lastReq.prevAdmit
    /\ \A o \in Origins : rejectedSince[o] >= 1 => Len(admitted[o]) >= 10

\* C6 witness: an origin is admitted again 61 seconds after its last
\* admitted request, with two rejected requests in between.
C6_Witness ==
    /\ lastReq.status = 200
    /\ lastReq.rejectedBefore = 2
    /\ lastReq.prevAdmit >= 0
    /\ lastReq.at - lastReq.prevAdmit = 61

(***************************************************************************)
(* Claims about the vector retriever, checked under SpecRetrieve.          *)
(***************************************************************************)
\* C1: retrieve never raises; whenever embedding the query or the vector
\* search throws (connection refused, missing collection, dimension
\* mismatch, malformed result point) it returns the empty list, as it does
\* when the search finds nothing.
C1_RetrieveTotal ==
    lastRetr.called =>
        /\ ~lastRetr.result.exc
        /\ RetrievalThrows(lastRetr) => lastRetr.result.val = <<>>
        /\ ~RetrievalThrows(lastRetr) =>
             Len(lastRetr.result.val) =
                IF Len(lastRetr.ranking) < lastRetr.limit
                THEN Len(lastRetr.ranking) ELSE lastRetr.limit

\* C1 witness: a 384-dimension query vector against a reachable 1024-dimension
\* collection that holds points: the search throws, retrieve returns [].
C1_Witness ==
    /\ lastRetr.called
    /\ lastRetr.embed_ok
    /\ lastRetr.backend = [reachable |-> TRUE, collection_exists |-> TRUE, dim |-> 1024]
    /\ Len(lastRetr.ranking) = 2
    /\ ~lastRetr.result.exc
    /\ lastRetr.result.val = <<>>

(***************************************************************************)
(* Claims about send_chat_message, checked under SpecChat.                 *)
(***************************************************************************)
Admitted(c) == c.called /\ c.status # 429

\* C4 as stated: once admitted, send_chat_message answers every failure of
\* retrieval, history lookup, completion or persistence with a normal
\* ChatResult-shaped response whose sources list is empty and whose response
\* text is non-empty, never with an HTTP error status.
C4_EveryFailureEmptySources ==
    (Admitted(lastCall) /\ lastCall.failed # {}) =>
        /\ lastCall.status = 200
        /\ lastCall.sources = <<>>
        /\ lastCall.response # <<>>

\* C4 amended: once admitted, send_chat_message answers every failure with
\* HTTP 200 and a ChatResult-shaped response, never with an HTTP error. A
\* failed completion gives empty sources, retrieved_chunks 0 and one of the
\* fixed explanatory texts, and persists nothing; failures of retrieval,
\* history lookup and persistence are absorbed: the call returns the
\* completion's answer with one source per retrieved chunk.
C4_FailuresAnswered ==
    Admitted(lastCall) =>
        /\ lastCall.status = 200
        /\ "completion" \in lastCall.failed =>
             /\ lastCall.response # <<>>
             /\ lastCall.kind \in {"auth_fallback", "rate_fallback", "timeout_fallback",
                                   "db_fallback", "generic_fallback"}
             /\ lastCall.sources = <<>>
             /\ lastCall.retrieved_chunks = 0
             /\ ~lastCall.persisted
        /\ "completion" \notin lastCall.failed =>
             /\ lastCall.kind = "completion"
             /\ lastCall.response = CompletionText
             /\ Len(lastCall.sources) = lastCall.retrieved_chunks
             /\ "retrieval" \in lastCall.failed => lastCall.sources = <<>>
             /\ lastCall.persisted

\* C4 witness: the vector store is down, the database is down and the
\* completion fails with a timeout: the call answers 200 with the timeout text.
C4_Witness ==
    /\ Admitted(lastCall)
    /\ lastCall.failed = {"retrieval", "history", "completion"}
    /\ lastCall.status = 200
    /\ lastCall.kind = "timeout_fallback"
    /\ lastCall.sources = <<>>

\* C8: when every durable-store operation fails during the whole run, two
\* sequential calls on the same session both return a normal response, and
\* the prompt of the second contains the user turn and the assistant turn of
\* the first, in that order, between the system message and the new user
\* message.
C8_DegradedMode ==
    (/\ Admitted(lastCall) /\ Admitted(prevCall)
     /\ ~everDurableOk
     /\ lastCall.session = prevCall.session) =>
        /\ prevCall.status = 200
        /\ lastCall.status = 200
        /\ prevCall.persisted =>
             LET p == lastCall.prompt
                 n == Len(p)
             IN  /\ n >= 4
                 /\ p[1].role = "system"
                 /\ p[n] = PromptMsg("user", lastCall.query, <<>>)
                 /\ \E i \in 2..(n - 1), j \in 2..(n - 1) :
                      /\ i < j
                      /\ p[i] = PromptMsg("user", prevCall.query, <<>>)
                      /\ p[j] = PromptMsg("assistant", prevCall.response, <<>>)

\* C8 witness: two answered calls on one session with the database down
\* throughout; the second prompt holds the system message, the cached turns
\* of the first call and the new user message.
C8_Witness ==
    /\ Admitted(lastCall) /\ Admitted(prevCall)
    /\ ~everDurableOk
    /\ lastCall.session = prevCall.session
    /\ prevCall.persisted /\ lastCall.persisted
    /\ lastCall.query # prevCall.query
    /\ Len(lastCall.prompt) = 6

(***************************************************************************)
(* Claims about run_agent_with_context, checked under SpecAgent.           *)
(***************************************************************************)
\* thread t has read the session's history and has not yet persisted both of
\* its turns
InFlight(t) == frames[t].pc \in {"complete", "persist_user", "persist_assistant"}

\* C3: two concurrent calls for the same session id are never both in flight
\* between reading the session's history and persisting their turns, also
\* when both are the first calls for that session and the session's lock is
\* being created.
C3_SessionMutualExclusion ==
    \A t1 \in Threads, t2 \in Threads :
        (t1 # t2 /\ frames[t1].session = frames[t2].session) =>
            ~(InFlight(t1) /\ InFlight(t2))

(***************************************************************************)
(* Claims about the history a client reads, checked under SpecHistory.     *)
(***************************************************************************)
IsPrefix(a, b) == Len(a) <= Len(b) /\ SubSeq(b, 1, Len(a)) = a

\* C11: append-only history: for every session, each history read has every
\* earlier history read of that session as a prefix, whatever the pattern of
\* durable-store outages and recoveries; a message once returned is never
\* dropped, and a session that has a message never reads as empty again.
C11_AppendOnlyHistory ==
    \A i \in 1..Len(reads), j \in 1..Len(reads) :
        (i < j /\ reads[i].session = reads[j].session) =>
            IsPrefix(reads[i].messages, reads[j].messages)

Range(f) == {f[i] : i \in DOMAIN f}

C12_LogOrder ==
    \A s \in Sessions :
        chat_messages[s] = appended[s] =>
            \A i \in 1..Len(chat_messages[s]) :
                chat_messages[s][i].role = (IF i % 2 = 1 THEN "user" ELSE "assistant")

(***************************************************************************)
(* Claims about ask_from_selection and the context window, checked under   *)
(* SpecSelection.                                                          *)
(***************************************************************************)
\* C14: ask_from_selection is stateless: a call leaves the table rows and the
\* cache list of every session unchanged, on success and on every failure
\* path, and its prompt is exactly the system message followed by the current
\* user message.
C14_SelectionStateless ==
    /\ [][lastAsk' # lastAsk =>
            UNCHANGED <<conversation_contexts, chat_messages>>]_vars
    /\ []((lastAsk.called /\ lastAsk.prompt # <<>>) =>
            /\ Len(lastAsk.prompt) = 2
            /\ lastAsk.prompt[1].role = "system"
            /\ lastAsk.prompt[2] = PromptMsg("user", lastAsk.query, <<>>))

\* C14 witness: a selection question is answered while a session has rows
\* and cached messages.
C14_Witness ==
    /\ lastAsk.called
    /\ lastAsk.status = 200
    /\ lastAsk.kind = "completion"
    /\ Len(lastAsk.prompt) = 2
    /\ \E s \in Sessions : conversation_contexts[s] # <<>> /\ chat_messages[s] # <<>>

Min2(a, b) == IF a <= b THEN a ELSE b
Max2(a, b) == IF a >= b THEN a ELSE b

\* C16: for every integer context_window (0, negative, above 10 included)
\* send_chat_message and ask_from_selection pass to retrieve the limit
\* min(max(context_window, 1), 10), which lies in [1, 10].
C16_WindowClamp ==
    /\ (lastCall.called /\ lastCall.status # 429) =>
          /\ lastCall.limit = Min2(Max2(lastCall.window, 1), 10)
          /\ lastCall.limit \in 1..10
    /\ (lastAsk.called /\ lastAsk.status # 429) =>
          /\ lastAsk.limit = Min2(Max2(lastAsk.window, 1), 10)
          /\ lastAsk.limit \in 1..10

\* C16 witness: a chat message asks for 1000000 chunks and gets the limit 10,
\* a selection question asks for -3 chunks and gets the limit 1.
C16_Witness ==
    /\ lastCall.called /\ lastCall.window = 1000000 /\ lastCall.limit = 10
    /\ lastAsk.called /\ lastAsk.window = -3 /\ lastAsk.limit = 1
    /\ prevCall.called /\ prevCall.window = 0 /\ prevCall.limit = 1

(***************************************************************************)
(* Further claims about send_chat_message, checked under SpecChat.         *)
(***************************************************************************)
\* C15: with the vector store unreachable and the completion provider
\* working, send_chat_message returns a normal result, not an exception, an
\* HTTP error or a fallback text: sources == [], retrieved_chunks == 0 and the
\* non-empty text of the completion.
C15_VectorStoreDown ==
    (Admitted(lastCall) /\ "retrieval" \in lastCall.failed /\ lastCall.raised = "") =>
        /\ lastCall.status = 200
        /\ lastCall.kind = "completion"
        /\ lastCall.retrieved = <<>>
        /\ lastCall.sources = <<>>
        /\ lastCall.retrieved_chunks = 0
        /\ lastCall.response = CompletionText
        /\ lastCall.response # <<>>

\* C15 witness: a call with the vector store down and the database up is
\* answered by the completion.
C15_Witness ==
    /\ Admitted(lastCall)
    /\ lastCall.failed = {"retrieval"}
    /\ lastCall.status = 200
    /\ lastCall.kind = "completion"
    /\ lastCall.sources = <<>>
    /\ Len(lastCall.prompt) = 2

\* C17: the user text that send_chat_message puts into the prompt and persists
\* is the sanitized text: at most 5000 characters, no raw '<' or '>', and no
\* control character other than tab, line feed and carriage return.
C17_SanitizedText ==
    Admitted(lastCall) =>
        /\ TextLen(lastCall.query) <= 5000
        /\ \A i \in 1..Len(lastCall.query) :
              lastCall.query[i].ch \notin {"<", ">"} \cup ControlChars \cup HighControlChars
        /\ lastCall.prompt # <<>> =>
              lastCall.prompt[Len(lastCall.prompt)] = PromptMsg("user", lastCall.query, <<>>)
        /\ lastCall.persisted =>
              [role |-> "user", content |-> lastCall.query]
                  \in Range(conversation_contexts[lastCall.session])

(***************************************************************************)
(* Claims about the prompt of send_chat_message, checked under SpecPrompt. *)
(***************************************************************************)
\* C18: the message list sent to the completion provider is exactly one
\* system message embedding the retrieved chunk contents, then the last
\* min(10, n) messages of the session's history of n messages in their stored
\* order, then one user message with the sanitized content; it never has more
\* than 12 entries.
C18_PromptShape ==
    (Admitted(lastCall) /\ lastCall.prompt # <<>>) =>
        LET p == lastCall.prompt
            h == lastCall.history
            n == Len(h)
            k == Min2(10, n)
        IN  /\ Len(p) = k + 2
            /\ Len(p) <= 12
            /\ p[1] = PromptMsg("system", <<>>,
                                [i \in 1..Len(lastCall.retrieved) |->
                                    lastCall.retrieved[i].content])
            /\ \A i \in 1..k :
                  p[1 + i] = PromptMsg(h[n - k + i].role, h[n - k + i].content, <<>>)
            /\ p[k + 2] = PromptMsg("user", lastCall.query, <<>>)

\* C18 witness: the fourth call of a session reads a history of twelve
\* messages and sends a prompt of twelve entries.
C18_Witness ==
    /\ Admitted(lastCall)
    /\ Len(lastCall.history) = 12
    /\ Len(lastCall.prompt) = 12
    /\ lastCall.retrieved # <<>>

(***************************************************************************)
(* Claims about what send_chat_message persists and how it answers a       *)
(* configuration error, checked under SpecChat.                            *)
(***************************************************************************)
\* C19: a call whose completion succeeds appends exactly two messages to the
\* session's log, the user turn (sanitized content) followed by the assistant
\* turn (the completion text), and only after the completion has returned: a
\* call whose completion fails appends nothing.
C19_TwoAppends ==
    Admitted(lastCall) =>
        LET s == lastCall.session
            cache == conversation_contexts[s]
            rows == chat_messages[s]
            turns == <<[role |-> "user", content |-> lastCall.query],
                       [role |-> "assistant", content |-> lastCall.response]>>
        IN  IF lastCall.kind = "completion"
            THEN /\ cache = SubSeq(cache, 1, lastCall.preCache) \o turns
                 /\ \/ Len(rows) = lastCall.preRows
                    \/ rows = SubSeq(rows, 1, lastCall.preRows) \o turns
            ELSE /\ Len(cache) = lastCall.preCache
                 /\ Len(rows) = lastCall.preRows

\* C20: a configuration error met while handling a chat message (the
\* completion call raises ValueError, as for missing or invalid credentials)
\* is answered with an HTTP 400-class error, not with a 200 fallback response
\* and not with a 500.
C20_ConfigErrorIs400 ==
    (Admitted(lastCall) /\ lastCall.raised = "ValueError") =>
        lastCall.status \in 400..499

(***************************************************************************)
(* Claims about what a failed call tells the caller, checked under         *)
(* SpecFailure.                                                            *)
(***************************************************************************)
\* what the caller of an endpoint receives
Response(c) ==
    [status |-> c.status, kind |-> c.kind, response |-> c.response,
     sources |-> c.sources, retrieved_chunks |-> c.retrieved_chunks,
     query |-> c.query, echo |-> c.echo]

\* two send_chat_message calls whose completion failed with the same kind of
\* failure and that agree on everything but the text of the exception message
SameFailure(c, d) ==
    /\ Admitted(c) /\ Admitted(d)
    /\ c.raised # "" /\ d.raised # ""
    /\ Classify(c.raisedKw) = Classify(d.raisedKw)
    /\ c.session = d.session /\ c.query = d.query /\ c.window = d.window

\* C21: no response of send_chat_message or ask_from_selection carries text
\* of an internal exception, and two calls that differ only in the message
\* text of a failure of the same kind get identical responses; the answer to
\* a failed call is fixed by the kind of the failure.
C21_NoExceptionText ==
    /\ lastCall.echo = "" /\ prevCall.echo = "" /\ lastAsk.echo = ""
    /\ SameFailure(lastCall, prevCall) => Response(lastCall) = Response(prevCall)
    /\ (lastAsk.called /\ lastAsk.raised # "") =>
          /\ lastAsk.status = 200
          /\ lastAsk.kind = Classify(lastAsk.raisedKw)
          /\ lastAsk.response = <<Run("a", 1)>>
          /\ lastAsk.sources = <<>> /\ lastAsk.retrieved_chunks = 0

C21_Witness ==
    /\ SameFailure(lastCall, prevCall)
    /\ lastCall.raisedText # prevCall.raisedText
    /\ lastCall.kind = "timeout_fallback"
    /\ lastAsk.called /\ lastAsk.raised # "" /\ lastAsk.raisedText = "m2"

(***************************************************************************)
(* Claim about concurrently handled requests, checked under SpecLoop.      *)
(***************************************************************************)
\* C22: whatever the order in which the handlers of concurrently received
\* requests of one origin run, no recorded timestamp is lost (every admitted
\* request less than 60 seconds old is in the origin's list, once per
\* request) and at most 10 requests of the origin with timestamps inside one
\* 60-second window are admitted.
C22_CountersSynchronized ==
    \A o \in Origins :
        /\ SelectLive(request_counts[o], now) = SelectLive(admitted[o], now)
        /\ \A i \in 1..Len(admitted[o]), j \in 1..Len(admitted[o]) :
              j - i >= 10 => admitted[o][j] - admitted[o][i] >= 60

\* C22 witness: with a further request of the origin still queued, the
\* eleventh request of a window is rejected after ten were admitted, two of
\* them at the same instant.
C22_Witness ==
    LET a == admitted["10.0.0.1"]
    IN  /\ pending["10.0.0.1"] >= 1
        /\ lastReq.status = 429 /\ lastReq.origin = "10.0.0.1"
        /\ Len(a) = 10
        /\ \E i \in 1..9 : a[i] = a[i + 1]
        /\ Len(request_counts["10.0.0.1"]) = 10

(***************************************************************************)
(* Claim about the chunks of retrieve, checked under SpecRetrieve.         *)
(***************************************************************************)
\* the points the vector search of the recorded call returned
PointsOf(c) ==
    SubSeq(c.ranking, 1, IF Len(c.ranking) < c.limit THEN Len(c.ranking) ELSE c.limit)

SearchReturned(c) ==
    /\ c.called /\ c.embed_ok
    /\ c.backend.reachable /\ c.backend.collection_exists
    /\ c.backend.dim = EmbeddingDim

\* C23: for every point the vector search returned, retrieve yields one
\* chunk, in the backend's order, whose content is the payload's `text` field
\* if the payload has one, otherwise its `content` field, otherwise the
\* stringified whole payload.
C23_ChunkPerPoint ==
    SearchReturned(lastRetr) =>
        LET points == PointsOf(lastRetr)
            chunks == lastRetr.result.val
        IN  /\ Len(chunks) = Len(points)
            /\ \A i \in 1..Len(points) :
                  i <= Len(chunks) =>
                     chunks[i].content =
                        IF points[i].none THEN "None"
                        ELSE IF points[i].text # "absent" THEN points[i].text
                        ELSE IF points[i].content # "absent" THEN points[i].content
                        ELSE StrOf(points[i])

(***************************************************************************)
(* Claim about the log after a failed completion, checked under            *)
(* SpecFailure.                                                            *)
(***************************************************************************)
\* the log holds two user messages one after the other
TwoUsersInARow(log) ==
    \E i \in 1..(Len(log) - 1) : log[i].role = "user" /\ log[i + 1].role = "user"

\* C24: when the completion of a send_chat_message call fails, the call's
\* user turn stays in the session's log without an assistant turn, and the
\* user turn of the next call on the session follows it directly, so that
\* the log holds two consecutive user messages.
C24_FailedTurnStays ==
    /\ (Admitted(lastCall) /\ lastCall.raised # "") =>
          LET log == get_conversation_context(conversation_contexts, chat_messages,
                                              lastCall.session, AllOkOuts)
          IN  /\ log # <<>>
              /\ log[Len(log)].role = "user"
              /\ log[Len(log)].content = lastCall.query
    /\ (/\ Admitted(lastCall) /\ Admitted(prevCall)
        /\ lastCall.session = prevCall.session
        /\ prevCall.raised # "" /\ lastCall.raised = "") =>
          TwoUsersInARow(get_conversation_context(conversation_contexts, chat_messages,
                                                  lastCall.session, AllOkOuts))

(***************************************************************************)
(* Claim about the classification of failures, checked under SpecFailure.  *)
(***************************************************************************)
\* the fallback the claim assigns to a failure whose message holds the
\* keyword groups kw
ExpectedFallback(kw) ==
    CASE "auth" \in kw -> "auth_fallback"
      [] "auth" \notin kw /\ "rate" \in kw -> "rate_fallback"
      [] {"auth", "rate"} \cap kw = {} /\ "timeout" \in kw -> "timeout_fallback"
      [] {"auth", "rate", "timeout"} \cap kw = {} /\ "db" \in kw -> "db_fallback"
      [] kw \cap Keywords = {} -> "generic_fallback"

\* a recorded call whose completion failed
CompletionFailed(c) == c.called /\ c.status # 429 /\ c.raised # ""

C26_NonUUIDCacheOnly ==
    /\ \A s \in OtherSessions :
          /\ chat_messages[s] = <<>>
          /\ conversation_contexts[s] = appended[s]
    /\ (lastOp.op = "add" /\ ~IsUUID(lastOp.session)) =>
          /\ \A i \in 1..Len(lastOp.trace) :
                lastOp.trace[i].ev \notin {"fail", "sleep", "fallback"}
          /\ Cardinality({i \in 1..Len(lastOp.trace) : lastOp.trace[i].ev = "attempt"}) = 1
    /\ (lastOp.op = "get" /\ ~IsUUID(lastOp.session)) =>
          lastOp.result = appended[lastOp.session]

(***************************************************************************)
(* Claim about get_db_with_retry, checked under SpecDb.                    *)
(***************************************************************************)
\* the attempts of the recorded call whose probe returns
OkProbes(c) == {i \in 1..c.max_retries : c.probes[i] = "ok"}

\* C27: get_db_with_retry(max_retries = n), n >= 1, makes at most n
\* connection attempts, returns the session of the first attempt whose probe
\* succeeds without attempting further, and after n failed attempts raises
\* the last error; it never returns without a usable session.
C27_RetryContract ==
    (lastDb.called /\ lastDb.max_retries >= 1) =>
        LET r == lastDb.result
            n == lastDb.max_retries
        IN  /\ r.attempts \in 1..n
            /\ OkProbes(lastDb) # {} =>
                 /\ ~r.exc
                 /\ \A i \in OkProbes(lastDb) : r.session <= i
                 /\ r.session \in OkProbes(lastDb)
                 /\ r.attempts = r.session
            /\ OkProbes(lastDb) = {} =>
                 /\ r.exc
                 /\ r.error = n
                 /\ r.attempts = n
            /\ ~r.exc => r.session >= 1 /\ lastDb.probes[r.session] = "ok"

\* C27 witness: with max_retries = 3 the probes of the first two attempts
\* raise and the third returns: three attempts, the third session returned.
C27_Witness ==
    /\ lastDb.called /\ lastDb.max_retries = DefaultMaxRetries
    /\ lastDb.probes = <<"sqlalchemy_error", "error", "ok">>
    /\ ~lastDb.result.exc /\ lastDb.result.session = 3
    /\ lastDb.result.sleeps = <<1, 2>>

(***************************************************************************)
(* Claim about the cache entries of an append, checked under SpecStore.    *)
(***************************************************************************)
\* C28: every add_message_to_context call adds exactly one entry to the
\* session's cache list, whatever the outcome of the durable write, so the
\* cache never holds the same appended message twice.
C28_OneCacheEntry ==
    /\ lastOp.op = "add" => Len(conversation_contexts[lastOp.session]) = lastOp.pre + 1
    /\ \A s \in Sessions : conversation_contexts[s] = appended[s]

(***************************************************************************)
(* Claim about session ids, checked under SpecSessions.                    *)
(***************************************************************************)
\* C29: two calls of create_chat_session return different session ids, so
\* that two clients never come to share one conversation log.
C29_DistinctSessionIds ==
    \A i \in 1..Len(created), j \in 1..Len(created) :
        i # j => created[i].session_id # created[j].session_id

(***************************************************************************)
(* Claim about termination, checked under SpecHandling.                    *)
(***************************************************************************)
\* C30: every send_chat_message call ends with a response or an HTTP error
\* provided each external call returns or raises; every retry loop on the
\* way is bounded: at most 3 durable attempts per read and per append, each
\* with at most 3 connection attempts.
C30_Terminates ==
    /\ [](/\ handling.attempt <= AddAttempts - 1
          /\ handling.conn <= DefaultMaxRetries - 1
          /\ handling.conns <= AddAttempts * DefaultMaxRetries)
    /\ (handling.pc \notin {"idle", "done"}) ~>
          (handling.pc = "done" /\ handling.result \in {"response", "fallback", "http_429"})

\* C30 witness: a call has ended with the completion's response after one of
\* its durable operations used all three attempts with three connection
\* attempts each.
C30_Witness ==
    /\ handling.pc = "done" /\ handling.result = "response"
    /\ handling.exhausted

====
